---------------------------- MODULE Spec2Model ----------------------------
(***************************************************************************)
(* Model of defaults/scripts/toolbar_api.py: the desktop stack API.        *)
(*                                                                         *)
(* One worker thread serves each HTTP request (ThreadingHTTPServer).  A    *)
(* thread blocks at every external call (supervisorctl status/stop/start,  *)
(* each display probe, kiosk_mode.sh), at every sleep and while it writes  *)
(* its response; each of these is one step of the model, so requests       *)
(* interleave at those points.  The supervisor, the file system holding    *)
(* kiosk_mode.sh, the clock against which the deadlines are read and the   *)
(* outcome of each external call (exit status and output, or               *)
(* subprocess.run raising TimeoutExpired, FileNotFoundError or, for output *)
(* that is not UTF-8, UnicodeDecodeError) belong to the environment and    *)
(* are chosen freely.                                                      *)
(*                                                                         *)
(* Service names and the values of the environment variables they come     *)
(* from are sequences of characters, each character its code point, so     *)
(* that str.strip and str.lower act on them character by character.        *)
(***************************************************************************)
EXTENDS Integers, Sequences, FiniteSets, TLC

VARIABLES
    DESKTOP_SERVICE,  \* line 38, read once at import
    orders,           \* a caller of services_start_order/services_stop_order
    switch_lock,      \* _switch_lock (line 67): TRUE when locked
    last_switch_ts,   \* _last_switch_ts (line 68)
    current_mode,     \* _current_mode (line 71)
    last_apply_ts,    \* _last_apply_ts (line 72)
    svc,              \* the supervisor: program name -> state
    script_exists,    \* os.path.exists(KIOSK_SCRIPT)
    now,              \* time.time(), a logical clock
    last_toggle,      \* mode given to the last kiosk_mode.sh run that exited 0
    mode_fresh,       \* a toggle has exited 0 since the last stop/start command
    th                \* the worker threads: position and locals of each

vars == <<DESKTOP_SERVICE, orders, switch_lock, last_switch_ts, current_mode,
          last_apply_ts, svc, script_exists, now, last_toggle, mode_fresh, th>>

shared == <<switch_lock, last_switch_ts, current_mode, last_apply_ts>>

---------------------------------------------------------------------------
(* Size of the model *)

\* ThreadingHTTPServer starts one worker thread per request (line 439): two
\* requests, which may overlap in every way or follow one another
Threads == {1, 2}

---------------------------------------------------------------------------
(* Strings (str.strip, str.lower) *)

\* A character is its code point.  str.lower is modelled on the first 256
\* code points (Latin-1), which hold every character of the values below.
Chars == 0..255

\* the characters that have a lower-case form: A-Z, and the accented
\* capitals from U+00C0 to U+00DE without the multiplication sign
UpperCase == (65..90) \cup (192..214) \cup (216..222)

\* the characters str.strip removes, those for which str.isspace holds:
\* tab, line feed, vertical tab, form feed, carriage return, the separators
\* U+001C to U+001F, space, next line (U+0085), no-break space (U+00A0),
\* and the Unicode spaces U+1680, U+2000 to U+200A, U+2028, U+2029,
\* U+202F, U+205F and U+3000
Whitespace ==
    (9..13) \cup (28..32) \cup {133, 160, 5760} \cup (8192..8202)
        \cup {8232, 8233, 8239, 8287, 12288}

\* str.lower of one character: the lower-case form lies 32 code points up
LowerOf == [c \in Chars |-> IF c \in UpperCase THEN c + 32 ELSE c]

LowerChar(c) == LowerOf[c]

\* str.lower (line 79)
Lower(s) == [i \in 1..Len(s) |-> LowerChar(s[i])]

\* str.isspace of one character
IsSpace(c) == c \in Whitespace

\* str.strip (lines 37, 38, 76): leading and trailing whitespace removed
Strip(s) ==
    LET keep == {i \in 1..Len(s) : ~IsSpace(s[i])}
        first == CHOOSE i \in keep : \A j \in keep : i <= j
        last == CHOOSE i \in keep : \A j \in keep : j <= i
    IN IF keep = {} THEN <<>> ELSE SubSeq(s, first, last)

---------------------------------------------------------------------------
(* Configuration (lines 30-53) *)

\* "xfce"
xfce == <<120, 102, 99, 101>>

\* "desk"
desk == <<100, 101, 115, 107>>

\* "none"
none == <<110, 111, 110, 101>>

\* line 37 with WM_SERVICE unset
WM_SERVICE == xfce

\* line 38: unset (the default, "none"), or naming a companion service
DesktopChoices == {none, desk}

\* the programs the supervisor may know, in the order it lists them
ProgramOrder == <<desk, xfce>>

Programs == {ProgramOrder[i] : i \in 1..Len(ProgramOrder)}

\* state words of `supervisorctl status` (a sample of them)
SvcStates == {"RUNNING", "STOPPED", "FATAL"}

\* a program the supervisor has no configuration for, so does not list
Absent == "ABSENT"

Modes == {"unknown", "on", "off"}

\* the sentinels of line 79: "none", "null", "0", "false"
Sentinels ==
    {none, <<110, 117, 108, 108>>, <<48>>, <<102, 97, 108, 115, 101>>}

\* line 37: the environment's value, stripped, or "xfce" when that is empty
WmFromEnv(e) == IF Strip(e) = <<>> THEN xfce ELSE Strip(e)

\* line 38
DesktopFromEnv(e) == Strip(e)

\* Mutant: a companion named like the window manager is not recognised.
DesktopServiceEnabledNoWmCheck(wm, ds) ==
    IF Strip(ds) = <<>> THEN FALSE
    ELSE Lower(Strip(ds)) \notin Sentinels

\* _desktop_service_enabled (lines 75-83)
DesktopServiceEnabledFor(wm, ds) ==
    IF Strip(ds) = <<>> THEN FALSE
    ELSE IF Lower(Strip(ds)) \in Sentinels THEN FALSE
    ELSE IF Strip(ds) = wm THEN FALSE
    ELSE TRUE

\* The choices of DESKTOP_SERVICE for which _desktop_service_enabled() is
\* true, worked out once.
EnabledChoices ==
    {ds \in DesktopChoices : DesktopServiceEnabledFor(WM_SERVICE, ds)}

\* _desktop_service_enabled() (lines 75-83) on the module's globals
desktop_service_enabled ==
    IF DESKTOP_SERVICE \in DesktopChoices
    THEN DESKTOP_SERVICE \in EnabledChoices
    ELSE DesktopServiceEnabledFor(WM_SERVICE, DESKTOP_SERVICE)

\* services_start_order (lines 86-89) for given globals
StartOrderFor(wm, ds) ==
    IF DesktopServiceEnabledFor(wm, ds) THEN <<wm, ds>> ELSE <<wm>>

\* services_stop_order (lines 92-95) for given globals
StopOrderFor(wm, ds) ==
    IF DesktopServiceEnabledFor(wm, ds) THEN <<ds, wm>> ELSE <<wm>>

\* services_start_order (lines 86-89)
services_start_order ==
    IF desktop_service_enabled
    THEN <<WM_SERVICE, DESKTOP_SERVICE>> ELSE <<WM_SERVICE>>

\* services_stop_order (lines 92-95)
services_stop_order ==
    IF desktop_service_enabled
    THEN <<DESKTOP_SERVICE, WM_SERVICE>> ELSE <<WM_SERVICE>>

Managed == {services_start_order[i] : i \in 1..Len(services_start_order)}

---------------------------------------------------------------------------
(* Supervisor client (lines 98-152) *)

\* Outcomes of one run_cmd call: exit 0, exit non-zero, or subprocess.run
\* raising (TimeoutExpired, FileNotFoundError, UnicodeDecodeError on the
\* output, line 105): run_cmd catches nothing.
CmdOutcomes == {"zero", "nonzero", "raise"}

EmptyMap == [p \in {} |-> "RUNNING"]

\* What `supervisorctl status` prints for supervisor state sv: one line per
\* program it knows, name first, state word second; a line is the sequence
\* of its words (str.split, line 119).
StatusListing(sv) ==
    LET Listed(p) == sv[p] # Absent
        names == SelectSeq(ProgramOrder, Listed)
    IN [i \in 1..Len(names) |-> <<names[i], sv[names[i]], "info">>]

\* The outputs the status command may give: the listing, with or without a
\* line of fewer than two words in front of it, or nothing at all.
StatusOutputs(sv) ==
    {StatusListing(sv), << <<"notice">> >> \o StatusListing(sv), <<>>}

\* lines 117-123: every line of at least two words maps its first word to
\* its second, a later line replacing an earlier one of the same name
ParseStatus(out) ==
    LET valid == {i \in 1..Len(out) : Len(out[i]) >= 2}
        names == {out[i][1] : i \in valid}
        LastOf(n) == CHOOSE i \in valid :
                        /\ out[i][1] = n
                        /\ \A j \in valid : out[j][1] = n => j <= i
    IN [n \in names |-> out[LastOf(n)][2]]

\* supervisor_status_map (lines 112-124): {} when the query exits non-zero
supervisor_status_map(o, out) ==
    IF o = "zero" THEN ParseStatus(out) ELSE EmptyMap

\* is_running (lines 127-130)
is_running(s, st) == s \in DOMAIN st /\ st[s] = "RUNNING"

\* Mutant: an empty snapshot counts as a stack that is down.
stack_running_fail_closed(st) ==
    /\ is_running(WM_SERVICE, st)
    /\ desktop_service_enabled => is_running(DESKTOP_SERVICE, st)

\* stack_running (lines 133-144)
stack_running(st) ==
    IF DOMAIN st = {} THEN TRUE
    ELSE IF desktop_service_enabled
         THEN is_running(WM_SERVICE, st) /\ is_running(DESKTOP_SERVICE, st)
         ELSE is_running(WM_SERVICE, st)

\* build_status_payload (lines 228-244)
build_status_payload(st) ==
    [ services     |-> [s \in Managed |->
                           IF s \in DOMAIN st THEN st[s] ELSE "UNKNOWN"],
      running      |-> stack_running(st) ]

---------------------------------------------------------------------------
(* Threads *)

NoPayload == [none |-> TRUE]

IdleThread ==
    [ pc |-> "new", route |-> "", force |-> FALSE, want_kiosk |-> FALSE,
      act |-> "", idx |-> 0,
      st_empty |-> FALSE,
      running |-> FALSE, restarted |-> FALSE,
      mode_read |-> "", exists_seen |-> "", toggle_rc |-> "",
      apply_needed |-> FALSE, ok_mode |-> FALSE, exc |-> FALSE,
      cmds |-> <<>>,
      code |-> 0, payload |-> NoPayload ]

DoneThread == [IdleThread EXCEPT !.pc = "done"]

\* No call of the order functions on record.
NoOrders == [wm |-> WM_SERVICE, start |-> <<>>, stop |-> <<>>]

\* The states of program p in the supervisor: a managed program is in some
\* state or unknown to the supervisor; a program that is not part of the
\* stack is listed and stays up.
ProgramStates(p) ==
    IF p \in Managed THEN SvcStates \cup {Absent} ELSE {"RUNNING"}

SupervisorStates ==
    {sv \in [Programs -> SvcStates \cup {Absent}] :
        \A p \in Programs : sv[p] \in ProgramStates(p)}

\* The module has been imported with DESKTOP_SERVICE unset (line 38) and
\* the server has started (lines 438-441); no request has arrived.
Init ==
    /\ DESKTOP_SERVICE = none
    /\ orders = NoOrders
    /\ switch_lock = FALSE
    /\ last_switch_ts = 0
    /\ current_mode = "unknown"
    /\ last_apply_ts = 0
    /\ svc \in SupervisorStates
    /\ script_exists \in BOOLEAN
    /\ now = 0
    /\ last_toggle = "none"
    /\ mode_fresh = FALSE
    /\ th = [t \in Threads |-> IdleThread]

Set(t, r) == th' = [th EXCEPT ![t] = r]

\* except Exception (lines 433-435): the 500 answer; exc records that the
\* request's call (ensure_ready on the ensure route) ended by raising.
HandleException(r) ==
    [IdleThread EXCEPT !.pc = "send", !.exc = TRUE, !.route = r.route,
         !.code = 500, !.payload = [ok |-> FALSE, error |-> "exception"]]

\* An exception leaving the current statement: inside ensure_ready's try
\* block it runs the finally clause (line 313) first; elsewhere it reaches
\* do_GET's handler (line 433) directly.  The locals of the statements it
\* unwinds are dead; the commands already issued stay on record.
Raised(t) ==
    IF th[t].route = "ensure" /\ th[t].pc # "busy"
    THEN [IdleThread EXCEPT !.pc = "finally", !.exc = TRUE,
              !.route = th[t].route, !.force = th[t].force,
              !.want_kiosk = th[t].want_kiosk, !.cmds = th[t].cmds]
    ELSE HandleException(th[t])

---------------------------------------------------------------------------
(* Handler.do_GET (lines 397-435): routing *)

Paths == {"/", "/debug", "/mode", "/kiosk", "/hide", "/show", "/desktop",
          "/restart", "/reset", "/favicon.ico"}

\* a request target urlparse rejects (ValueError: Invalid IPv6 URL)
BadTarget == "http://[bad/kiosk"

\* request targets (self.path): a path, or one that urlparse cannot parse
Targets == Paths \cup {BadTarget}

\* line 399: urlparse raises inside do_GET's try block
UrlParseRaises(target) == target = BadTarget

Route(path) ==
    IF path \in {"/", "/debug", "/mode"} THEN "status"
    ELSE IF path \in {"/kiosk", "/hide"} THEN "ensure"
    ELSE IF path \in {"/show", "/desktop"} THEN "ensure"
    ELSE IF path \in {"/restart", "/reset"} THEN "restart"
    ELSE "notfound"

WantKiosk(path) == path \in {"/kiosk", "/hide"}

\* A request arrives and do_GET dispatches on its path (lines 398-431).
\* Threads are numbered in the order their requests arrive.
DoGet(t) ==
    /\ th[t].pc = "new"
    /\ \A u \in Threads : u < t => th[u].pc # "new"
    /\ \E path \in Targets, force \in BOOLEAN :
         LET r == Route(path) IN
         Set(t, CASE UrlParseRaises(path) ->
                       HandleException([route |-> "invalid"])
                  [] r = "status" ->
                       [IdleThread EXCEPT !.pc = "status", !.route = r]
                  [] r = "ensure" ->
                       [IdleThread EXCEPT !.pc = "acquire", !.route = r,
                            !.force = force, !.want_kiosk = WantKiosk(path)]
                  [] r = "restart" ->
                       [IdleThread EXCEPT !.pc = "stop", !.route = r,
                            !.act = "restart", !.idx = 1]
                  [] OTHER ->
                       [IdleThread EXCEPT !.pc = "send", !.route = r,
                            !.code = 404,
                            !.payload = [ok |-> FALSE, error |-> "not_found",
                                         path |-> path]])
    /\ UNCHANGED <<DESKTOP_SERVICE, orders, shared, svc, script_exists, now,
                   last_toggle, mode_fresh>>

\* "/", "/debug", "/mode" (lines 407-411)
StatusOnly(t) ==
    /\ th[t].pc = "status"
    /\ \E o \in CmdOutcomes, out \in StatusOutputs(svc) :
         IF o = "raise" THEN Set(t, Raised(t))
         ELSE Set(t, [th[t] EXCEPT !.pc = "send", !.code = 200,
                 !.payload = [ok |-> TRUE] @@
                     build_status_payload(supervisor_status_map(o, out))])
    /\ UNCHANGED <<DESKTOP_SERVICE, orders, shared, svc, script_exists, now,
                   last_toggle, mode_fresh>>

---------------------------------------------------------------------------
(* ensure_ready (lines 247-314) *)

DesiredMode(want_kiosk) == IF want_kiosk THEN "on" ELSE "off"

\* Mutant: the acquisition reports success whether or not the lock was free.
LockAcquiredAlways(locked) == TRUE

\* _switch_lock.acquire(blocking=False) (line 250): succeeds iff unlocked
LockAcquired(locked) == ~locked

\* lines 250, 260-261
Acquire(t) ==
    /\ th[t].pc = "acquire"
    /\ IF LockAcquired(switch_lock)
       THEN /\ switch_lock' = TRUE
            /\ Set(t, [th[t] EXCEPT !.pc = "snap"])
       ELSE /\ switch_lock' = switch_lock
            /\ Set(t, [th[t] EXCEPT !.pc = "busy"])
    /\ UNCHANGED <<DESKTOP_SERVICE, orders, last_switch_ts, current_mode,
                   last_apply_ts, svc, script_exists, now, last_toggle,
                   mode_fresh>>

\* payload.update of lines 252-257
BusyUpdate ==
    [ok |-> FALSE, busy |-> TRUE, changed |-> FALSE,
     message |-> "switch_in_progress"]

\* lines 251-258
BusyReply(t) ==
    /\ th[t].pc = "busy"
    /\ \E o \in CmdOutcomes, out \in StatusOutputs(svc) :
         IF o = "raise" THEN Set(t, Raised(t))
         ELSE Set(t, [th[t] EXCEPT !.pc = "send", !.code = 202,
                 !.payload = BusyUpdate @@
                     build_status_payload(supervisor_status_map(o, out))])
    /\ UNCHANGED <<DESKTOP_SERVICE, orders, shared, svc, script_exists, now,
                   last_toggle, mode_fresh>>

\* line 267: whether the stack is (re)started
StackActionNeeded(force, running) == force \/ ~running

\* line 268: which action
StackAction(force) == IF force THEN "restart" ELSE "start"

\* lines 263-268.  st is not read after line 264; st_empty keeps whether
\* it was empty until the call is past the decision of line 267 and what
\* follows from it (until desktop_stack has returned, or the apply step).
Snapshot(t) ==
    /\ th[t].pc = "snap"
    /\ \E o \in CmdOutcomes, out \in StatusOutputs(svc) :
         IF o = "raise" THEN Set(t, Raised(t))
         ELSE LET st == supervisor_status_map(o, out)
                  running == stack_running(st)
                  act == StackAction(th[t].force)
                  me == [th[t] EXCEPT !.st_empty = (DOMAIN st = {}),
                                      !.running = running]
              IN IF StackActionNeeded(th[t].force, running)
                 THEN Set(t, [me EXCEPT !.act = act, !.idx = 1,
                         !.pc = IF act = "restart" THEN "stop" ELSE "start"])
                 ELSE Set(t, [me EXCEPT !.pc = "apply"])
    /\ UNCHANGED <<DESKTOP_SERVICE, orders, shared, svc, script_exists, now,
                   last_toggle, mode_fresh>>

---------------------------------------------------------------------------
(* desktop_stack (lines 165-183), wait_stack_ready (lines 155-162) *)

\* supervisor_stop (lines 147-148): one service of services_stop_order; the
\* exit status is ignored, the supervisor may or may not have stopped it.
SupervisorStop(t) ==
    /\ th[t].pc = "stop"
    /\ LET s == services_stop_order[th[t].idx]
           last == th[t].idx = Len(services_stop_order)
           issued == [th[t] EXCEPT !.cmds = Append(@, <<"stop", s>>)]
       IN \E o \in CmdOutcomes, stopped \in BOOLEAN :
            /\ svc' = IF stopped /\ svc[s] # Absent
                      THEN [svc EXCEPT ![s] = "STOPPED"] ELSE svc
            /\ (o = "zero" /\ svc[s] # Absent) => stopped
            /\ IF o = "raise"
               THEN Set(t, [Raised(t) EXCEPT !.cmds = issued.cmds])
               ELSE Set(t, [issued EXCEPT
                        !.idx = IF last THEN 1 ELSE @ + 1,
                        !.pc = IF last THEN "start" ELSE "stop"])
    /\ UNCHANGED <<DESKTOP_SERVICE, orders, shared, script_exists, now,
                   last_toggle>>
    /\ mode_fresh' = FALSE

\* supervisor_start (lines 151-152): one service of services_start_order;
\* the supervisor may bring it up, fail to (FATAL) or leave it as it is.
SupervisorStart(t) ==
    /\ th[t].pc = "start"
    /\ LET s == services_start_order[th[t].idx]
           last == th[t].idx = Len(services_start_order)
           issued == [th[t] EXCEPT !.cmds = Append(@, <<"start", s>>)]
       IN \E o \in CmdOutcomes,
             v \in IF svc[s] = Absent THEN {Absent}
                   ELSE {svc[s], "RUNNING", "FATAL"} :
            /\ svc' = [svc EXCEPT ![s] = v]
            /\ (o = "zero" /\ svc[s] # Absent) => v = "RUNNING"
            /\ IF o = "raise"
               THEN Set(t, [Raised(t) EXCEPT !.cmds = issued.cmds])
               ELSE Set(t, [issued EXCEPT
                        !.idx = IF last THEN 0 ELSE @ + 1,
                        !.pc = IF last THEN "wait" ELSE "start"])
    /\ UNCHANGED <<DESKTOP_SERVICE, orders, shared, script_exists, now,
                   last_toggle>>
    /\ mode_fresh' = FALSE

\* What follows desktop_stack's return: lines 269-275 in ensure_ready,
\* where ok_stack is read once (line 274), and lines 425-427 in do_GET's
\* /restart branch, which discards the result.
AfterStack(t, ok_stack) ==
    IF th[t].route = "ensure"
    THEN /\ Set(t, [th[t] EXCEPT !.restarted = TRUE, !.st_empty = FALSE,
                        !.pc = IF ok_stack THEN "xready" ELSE "apply"])
         /\ now' = now + 1
         /\ last_switch_ts' = now + 1
    ELSE /\ Set(t, [th[t] EXCEPT !.pc = "restart_payload"])
         /\ UNCHANGED <<now, last_switch_ts>>

\* One pass of wait_stack_ready's loop (lines 157-161), from the test of
\* the deadline on: the deadline has passed (False; with DESKTOP_WAIT_MAX_SEC
\* at 0 that is so on the first test), or a status query finds the stack
\* running (True), raises, or finds it not running, and the thread sleeps.
WaitStackReady(t) ==
    /\ th[t].pc = "wait"
    /\ \E late \in BOOLEAN :
         IF late
         THEN AfterStack(t, FALSE)
         ELSE \E o \in CmdOutcomes, out \in StatusOutputs(svc) :
                IF o = "raise"
                THEN Set(t, Raised(t)) /\ UNCHANGED <<now, last_switch_ts>>
                ELSE IF stack_running(supervisor_status_map(o, out))
                THEN AfterStack(t, TRUE)
                ELSE /\ Set(t, [th[t] EXCEPT !.pc = "wait_sleep"])
                     /\ UNCHANGED <<now, last_switch_ts>>
    /\ UNCHANGED <<DESKTOP_SERVICE, orders, switch_lock, current_mode,
                   last_apply_ts, svc, script_exists, last_toggle,
                   mode_fresh>>

\* time.sleep(WAIT_POLL_SEC) (line 161) ends; the loop tests its deadline
\* next.
WaitSleep(t) ==
    /\ th[t].pc = "wait_sleep"
    /\ Set(t, [th[t] EXCEPT !.pc = "wait"])
    /\ UNCHANGED <<DESKTOP_SERVICE, orders, shared, svc, script_exists, now,
                   last_toggle, mode_fresh>>

\* Outcomes of one default display probe (lines 206-209): run_cmd returns
\* an exit status, or the tool is not installed (FileNotFoundError, caught),
\* or the probe exceeds its 3 s (TimeoutExpired, not caught).
ProbeOutcomes == {"zero", "nonzero", "notfound", "raise"}

\* rc of lines 207-209
ProbeRc(o) == CASE o = "zero" -> 0
                [] o = "notfound" -> 127
                [] OTHER -> 1

\* The probing is on record once, when its first probe has run.
Probed(c) ==
    IF \E i \in 1..Len(c) : c[i][1] = "xprobe" THEN c
    ELSE Append(c, <<"xprobe", "xset">>)

\* wait_x_ready with X_READY_CMD unset (lines 203-214), from the test of
\* the deadline on: the deadline has passed (False), or `xset q` runs.  The
\* probes touch no state of the program and the result is discarded by the
\* caller (line 275).
WaitXReady(t) ==
    /\ th[t].pc = "xready"
    /\ \E late \in BOOLEAN :
         IF late
         THEN Set(t, [th[t] EXCEPT !.pc = "apply"])
         ELSE \E o \in ProbeOutcomes :
                LET ran == [th[t] EXCEPT !.cmds = Probed(@)] IN
                IF o = "raise"
                THEN Set(t, [Raised(t) EXCEPT !.cmds = ran.cmds])
                ELSE IF ProbeRc(o) = 0
                THEN Set(t, [ran EXCEPT !.pc = "apply"])
                ELSE Set(t, [ran EXCEPT !.pc = "xdpyinfo"])
    /\ UNCHANGED <<DESKTOP_SERVICE, orders, shared, svc, script_exists, now,
                   last_toggle, mode_fresh>>

\* The second probe of the pass, `xdpyinfo` (lines 205-211); when it fails
\* too the thread sleeps (line 212).
XdpyinfoProbe(t) ==
    /\ th[t].pc = "xdpyinfo"
    /\ \E o \in ProbeOutcomes :
         IF o = "raise"
         THEN Set(t, Raised(t))
         ELSE IF ProbeRc(o) = 0
         THEN Set(t, [th[t] EXCEPT !.pc = "apply"])
         ELSE Set(t, [th[t] EXCEPT !.pc = "xsleep"])
    /\ UNCHANGED <<DESKTOP_SERVICE, orders, shared, svc, script_exists, now,
                   last_toggle, mode_fresh>>

\* time.sleep(X_READY_POLL_SEC) (line 212) ends.
XSleep(t) ==
    /\ th[t].pc = "xsleep"
    /\ Set(t, [th[t] EXCEPT !.pc = "xready"])
    /\ UNCHANGED <<DESKTOP_SERVICE, orders, shared, svc, script_exists, now,
                   last_toggle, mode_fresh>>

---------------------------------------------------------------------------
(* mode apply (lines 217-225, 277-289) *)

\* Mutant: the mode is applied on every call, as the version described in
\* the header comment (lines 14-16) did.
ApplyNeededAlways(force, restarted, cur, desired) == TRUE

\* line 279
ApplyNeeded(force, restarted, cur, desired) ==
    force \/ restarted \/ (cur # desired)

\* Mutant: the script's exit status is not looked at.
SetKioskModeOkAnyExit(exists, o) == exists /\ o \in {"zero", "nonzero"}

\* Mutant: the missing-script branch reports success.
SetKioskModeOkMissing(exists, o) == o \in {"zero", "missing"}

\* set_kiosk_mode's first result (lines 219-223): "missing" when the path
\* does not exist, else whether the script's exit status is zero
SetKioskModeOk(exists, o) == exists /\ o = "zero"

\* Outcomes of set_kiosk_mode's run_cmd; no process is spawned when the
\* path does not exist (line 220).  "undecodable": the script exits 0 and
\* subprocess.run, which has waited for it, raises while decoding its
\* output (text=True, line 105).
ScriptOutcomes(exists) ==
    IF exists THEN CmdOutcomes \cup {"undecodable"} ELSE {"missing"}

\* lines 279-284 and 219-222: the decision, and when the mode is to be
\* applied the test for the script, which is then started or found missing.
ApplyMode(t) ==
    /\ th[t].pc = "apply"
    /\ LET desired == DesiredMode(th[t].want_kiosk)
           need == ApplyNeeded(th[t].force, th[t].restarted,
                               current_mode, desired)
           me == [th[t] EXCEPT !.mode_read = current_mode,
                               !.apply_needed = need, !.st_empty = FALSE]
       IN IF ~need
          THEN Set(t, [me EXCEPT !.ok_mode = TRUE, !.pc = "final"])
          ELSE IF script_exists
          THEN Set(t, [me EXCEPT !.exists_seen = "yes", !.pc = "toggle"])
          ELSE \E o \in ScriptOutcomes(FALSE) :
                 Set(t, [me EXCEPT !.exists_seen = "no", !.toggle_rc = o,
                                   !.ok_mode = SetKioskModeOk(FALSE, o),
                                   !.pc = "final"])
    /\ UNCHANGED <<DESKTOP_SERVICE, orders, shared, svc, script_exists, now,
                   last_toggle, mode_fresh>>

\* kiosk_mode.sh ends (lines 222-225): run_cmd returns its exit status or
\* raises, which it also does after an exit 0 whose output cannot be
\* decoded; on success ensure_ready writes _current_mode (lines 285-286).
SetKioskMode(t) ==
    /\ th[t].pc = "toggle"
    /\ \E o \in ScriptOutcomes(TRUE) :
         LET desired == DesiredMode(th[t].want_kiosk)
             exited_zero == o \in {"zero", "undecodable"}
             raises == o \in {"raise", "undecodable"}
             ok_mode == SetKioskModeOk(TRUE, o)
             ran == [th[t] EXCEPT !.toggle_rc = o,
                                  !.cmds = Append(@, <<"toggle", desired>>)]
         IN /\ last_toggle' = IF exited_zero THEN desired ELSE last_toggle
            /\ mode_fresh' = IF exited_zero THEN TRUE ELSE mode_fresh
            /\ IF raises
               THEN /\ Set(t, [Raised(t) EXCEPT !.cmds = ran.cmds])
                    /\ UNCHANGED current_mode
               ELSE IF ok_mode
               THEN /\ Set(t, [ran EXCEPT !.ok_mode = TRUE, !.pc = "stamp"])
                    /\ current_mode' = desired
               ELSE /\ Set(t, [ran EXCEPT !.ok_mode = FALSE,
                                          !.pc = "final"])
                    /\ UNCHANGED current_mode
    /\ UNCHANGED <<DESKTOP_SERVICE, orders, switch_lock, last_switch_ts,
                   last_apply_ts, svc, script_exists, now>>

\* line 287, a statement of its own after the write of line 286: the time
\* of the apply is recorded; the thread then sleeps MODE_APPLY_DELAY_SEC
\* unless that is 0 (line 288).
StampApply(t) ==
    /\ th[t].pc = "stamp"
    /\ \E delay \in BOOLEAN :
         Set(t, [th[t] EXCEPT !.pc = IF delay THEN "settle" ELSE "final"])
    /\ now' = now + 1
    /\ last_apply_ts' = now + 1
    /\ UNCHANGED <<DESKTOP_SERVICE, orders, switch_lock, last_switch_ts,
                   current_mode, svc, script_exists, last_toggle, mode_fresh>>

\* time.sleep(MODE_APPLY_DELAY_SEC) (line 289) ends.
Settle(t) ==
    /\ th[t].pc = "settle"
    /\ Set(t, [th[t] EXCEPT !.pc = "final"])
    /\ UNCHANGED <<DESKTOP_SERVICE, orders, shared, svc, script_exists, now,
                   last_toggle, mode_fresh>>

---------------------------------------------------------------------------
(* result (lines 291-314) *)

\* Mutant: the result of the mode apply is left out of the success predicate.
OkAllNoMode(running_now, ok_mode, cur, desired) ==
    running_now /\ (cur = desired)

\* line 298
OkAll(running_now, ok_mode, cur, desired) ==
    running_now /\ ok_mode /\ (cur = desired)

\* line 308
Message(ok_all, running_now) ==
    IF ok_all THEN "ready"
    ELSE IF ~running_now THEN "starting" ELSE "applying"

\* line 311
StatusCode(ok_all) == IF ok_all THEN 200 ELSE 202

\* lines 291-311
FinalPayload(t) ==
    /\ th[t].pc = "final"
    /\ \E o \in CmdOutcomes, out \in StatusOutputs(svc) :
         IF o = "raise" THEN Set(t, Raised(t))
         ELSE LET base == build_status_payload(supervisor_status_map(o, out))
                  desired == DesiredMode(th[t].want_kiosk)
                  ok_all == OkAll(base.running, th[t].ok_mode,
                                  current_mode, desired)
              IN Set(t, [th[t] EXCEPT !.pc = "finally",
                     !.code = StatusCode(ok_all),
                     !.payload =
                        [ ok |-> ok_all, busy |-> FALSE,
                          changed |-> th[t].restarted,
                          requested_mode |-> desired,
                          applied |-> th[t].apply_needed,
                          mode_ok |-> th[t].ok_mode,
                          message |-> Message(ok_all, base.running) ]
                        @@ base])
    /\ UNCHANGED <<DESKTOP_SERVICE, orders, shared, svc, script_exists, now,
                   last_toggle, mode_fresh>>

\* Mutant: the release sits after the try block instead of in a finally
\* clause, so an exception skips it.
ReleasedUnlessRaised(locked, exc) == locked /\ exc

\* _switch_lock.release() in the finally clause (lines 313-314)
Released(locked, exc) == FALSE

\* What ensure_ready hands to do_GET on its return (line 311): the code and
\* the payload; the call's locals are gone.
Returned(r) ==
    [IdleThread EXCEPT !.pc = "send", !.route = r.route, !.code = r.code,
                       !.payload = r.payload]

\* lines 313-314: the lock is released and ensure_ready's frame is left,
\* either by the exception, which reaches do_GET's handler, or by the
\* return of line 311, whose value (code, payload) was computed before the
\* finally clause ran; do_GET then sends it (lines 415, 420).
Finally(t) ==
    /\ th[t].pc = "finally"
    /\ switch_lock' = Released(switch_lock, th[t].exc)
    /\ Set(t, IF th[t].exc THEN HandleException(th[t]) ELSE Returned(th[t]))
    /\ UNCHANGED <<DESKTOP_SERVICE, orders, last_switch_ts, current_mode,
                   last_apply_ts, svc, script_exists, now, last_toggle,
                   mode_fresh>>

---------------------------------------------------------------------------
(* the rest of do_GET *)

\* "/restart", "/reset" after desktop_stack("restart") (lines 425-427)
RestartPayload(t) ==
    /\ th[t].pc = "restart_payload"
    /\ \E o \in CmdOutcomes, out \in StatusOutputs(svc) :
         IF o = "raise" THEN Set(t, Raised(t))
         ELSE Set(t, [th[t] EXCEPT !.pc = "send", !.code = 200,
                 !.payload = [ok |-> TRUE, message |-> "restarted"] @@
                     build_status_payload(supervisor_status_map(o, out))])
    /\ UNCHANGED <<DESKTOP_SERVICE, orders, shared, svc, script_exists, now,
                   last_toggle, mode_fresh>>

\* _send_json (lines 333-344) has written the response; the request ends.
Respond(t) ==
    /\ th[t].pc = "send"
    /\ Set(t, DoneThread)
    /\ UNCHANGED <<DESKTOP_SERVICE, orders, shared, svc, script_exists, now,
                   last_toggle, mode_fresh>>

---------------------------------------------------------------------------
(* Environment *)

\* A program changes state on its own (exit, crash, autorestart), or is
\* added to or removed from the supervisor's configuration.
EnvService ==
    /\ \E s \in Programs :
         \E v \in ProgramStates(s) \ {svc[s]} :
            svc' = [svc EXCEPT ![s] = v]
    /\ UNCHANGED <<DESKTOP_SERVICE, orders, shared, script_exists, now,
                   last_toggle, mode_fresh, th>>

\* kiosk_mode.sh is installed or removed.
EnvScript ==
    /\ script_exists' = ~script_exists
    /\ UNCHANGED <<DESKTOP_SERVICE, orders, shared, svc, now, last_toggle,
                   mode_fresh, th>>

---------------------------------------------------------------------------

Step(t) ==
    \/ StatusOnly(t)
    \/ Acquire(t)
    \/ BusyReply(t)
    \/ Snapshot(t)
    \/ SupervisorStop(t)
    \/ SupervisorStart(t)
    \/ WaitStackReady(t)
    \/ WaitSleep(t)
    \/ WaitXReady(t)
    \/ XdpyinfoProbe(t)
    \/ XSleep(t)
    \/ ApplyMode(t)
    \/ SetKioskMode(t)
    \/ StampApply(t)
    \/ Settle(t)
    \/ FinalPayload(t)
    \/ Finally(t)
    \/ RestartPayload(t)
    \/ Respond(t)

Next ==
    \/ \E t \in Threads : DoGet(t)
    \/ \E t \in Threads : Step(t)
    \/ EnvService
    \/ EnvScript

Spec == Init /\ [][Next]_vars

\* The server has already served one /kiosk request, which found the stack
\* running and whose toggle exited zero (lines 285-287); it is idle again.
WarmInit ==
    /\ DESKTOP_SERVICE = none
    /\ orders = NoOrders
    /\ switch_lock = FALSE
    /\ last_switch_ts = 0
    /\ current_mode = "on"
    /\ last_apply_ts = 1
    /\ svc \in SupervisorStates
    /\ script_exists \in BOOLEAN
    /\ now = 1
    /\ last_toggle = "on"
    /\ mode_fresh = TRUE
    /\ th = [t \in Threads |-> IdleThread]

WarmSpec == WarmInit /\ [][Next]_vars

\* The module has been imported with DESKTOP_SERVICE naming a companion
\* service, so the stack has two services.
CompanionInit ==
    /\ DESKTOP_SERVICE = desk
    /\ orders = NoOrders
    /\ switch_lock = FALSE
    /\ last_switch_ts = 0
    /\ current_mode = "unknown"
    /\ last_apply_ts = 0
    /\ svc \in SupervisorStates
    /\ script_exists \in BOOLEAN
    /\ now = 0
    /\ last_toggle = "none"
    /\ mode_fresh = FALSE
    /\ th = [t \in Threads |-> IdleThread]

\* The requests' steps alone: the supervisor's programs change state only
\* through the stop and start commands, and kiosk_mode.sh stays installed
\* or missing.
RequestNext ==
    \/ \E t \in Threads : DoGet(t)
    \/ \E t \in Threads : Step(t)

\* The two-service stack, from every state of the supervisor.
CompanionSpec == CompanionInit /\ [][RequestNext]_vars

---------------------------------------------------------------------------
(* The order functions on their own (lines 75-95) *)

\* Values of the WM_SERVICE environment variable:
\*   "", "xfce", " xfce ", "desk", "openbox", "XFCE", "\x0bxfce",
\*   "desk\x0b"
WmEnv ==
    {<<>>,
     <<120, 102, 99, 101>>,
     <<32, 120, 102, 99, 101, 32>>,
     <<100, 101, 115, 107>>,
     <<111, 112, 101, 110, 98, 111, 120>>,
     <<88, 70, 67, 69>>,
     <<11, 120, 102, 99, 101>>,
     <<100, 101, 115, 107, 11>>}

\* Values of the DESKTOP_SERVICE environment variable:
\*   "", " ", "none", "None", "NONE", "nOnE", " none ", "\tnone\n",
\*   "null", "NULL", "nUlL", "0", " 0 ", "false", "False", "FALSe",
\*   "desk", "Desk", " Desk", "xfce", "XFCE", "openbox", "nonesuch",
\*   "no", "\x0bnone", "none\x0b", "\x1cnull\x1d", "\x0b", "\x1fdesk",
\*   "\xa0desk\x85", "N\xd6NE", "n\x0bne", "\u2003none\u3000"
\* and every other spelling of "none", "null" and "false" in upper and
\* lower case letters ("nonE", "NoNe", "Null", "nULL", "FALSE", "fAlSe",
\* "FaLsE", ...)
CompanionEnv ==
    {<<>>,
     <<32>>,
     <<110, 111, 110, 101>>,
     <<78, 111, 110, 101>>,
     <<78, 79, 78, 69>>,
     <<110, 79, 110, 69>>,
     <<32, 110, 111, 110, 101, 32>>,
     <<9, 110, 111, 110, 101, 10>>,
     <<110, 117, 108, 108>>,
     <<78, 85, 76, 76>>,
     <<110, 85, 108, 76>>,
     <<48>>,
     <<32, 48, 32>>,
     <<102, 97, 108, 115, 101>>,
     <<70, 97, 108, 115, 101>>,
     <<70, 65, 76, 83, 101>>,
     <<100, 101, 115, 107>>,
     <<68, 101, 115, 107>>,
     <<32, 68, 101, 115, 107>>,
     <<120, 102, 99, 101>>,
     <<88, 70, 67, 69>>,
     <<111, 112, 101, 110, 98, 111, 120>>,
     <<110, 111, 110, 101, 115, 117, 99, 104>>,
     <<110, 111>>,
     <<11, 110, 111, 110, 101>>,
     <<110, 111, 110, 101, 11>>,
     <<28, 110, 117, 108, 108, 29>>,
     <<11>>,
     <<31, 100, 101, 115, 107>>,
     <<160, 100, 101, 115, 107, 133>>,
     <<78, 214, 78, 69>>,
     <<110, 11, 110, 101>>,
     <<8195, 110, 111, 110, 101, 12288>>,
     <<110, 111, 110, 69>>,
     <<110, 111, 78, 101>>,
     <<110, 111, 78, 69>>,
     <<110, 79, 110, 101>>,
     <<110, 79, 78, 101>>,
     <<110, 79, 78, 69>>,
     <<78, 111, 110, 69>>,
     <<78, 111, 78, 101>>,
     <<78, 111, 78, 69>>,
     <<78, 79, 110, 101>>,
     <<78, 79, 110, 69>>,
     <<78, 79, 78, 101>>,
     <<110, 117, 108, 76>>,
     <<110, 117, 76, 108>>,
     <<110, 117, 76, 76>>,
     <<110, 85, 108, 108>>,
     <<110, 85, 76, 108>>,
     <<110, 85, 76, 76>>,
     <<78, 117, 108, 108>>,
     <<78, 117, 108, 76>>,
     <<78, 117, 76, 108>>,
     <<78, 117, 76, 76>>,
     <<78, 85, 108, 108>>,
     <<78, 85, 108, 76>>,
     <<78, 85, 76, 108>>,
     <<102, 97, 108, 115, 69>>,
     <<102, 97, 108, 83, 101>>,
     <<102, 97, 108, 83, 69>>,
     <<102, 97, 76, 115, 101>>,
     <<102, 97, 76, 115, 69>>,
     <<102, 97, 76, 83, 101>>,
     <<102, 97, 76, 83, 69>>,
     <<102, 65, 108, 115, 101>>,
     <<102, 65, 108, 115, 69>>,
     <<102, 65, 108, 83, 101>>,
     <<102, 65, 108, 83, 69>>,
     <<102, 65, 76, 115, 101>>,
     <<102, 65, 76, 115, 69>>,
     <<102, 65, 76, 83, 101>>,
     <<102, 65, 76, 83, 69>>,
     <<70, 97, 108, 115, 69>>,
     <<70, 97, 108, 83, 101>>,
     <<70, 97, 108, 83, 69>>,
     <<70, 97, 76, 115, 101>>,
     <<70, 97, 76, 115, 69>>,
     <<70, 97, 76, 83, 101>>,
     <<70, 97, 76, 83, 69>>,
     <<70, 65, 108, 115, 101>>,
     <<70, 65, 108, 115, 69>>,
     <<70, 65, 108, 83, 101>>,
     <<70, 65, 108, 83, 69>>,
     <<70, 65, 76, 115, 101>>,
     <<70, 65, 76, 115, 69>>,
     <<70, 65, 76, 83, 69>>}

\* The module is imported with some configuration (lines 37-38); nothing
\* else has happened.
OrderInit ==
    /\ \E e \in CompanionEnv : DESKTOP_SERVICE = DesktopFromEnv(e)
    /\ \E e \in WmEnv : orders = [NoOrders EXCEPT !.wm = WmFromEnv(e)]
    /\ switch_lock = FALSE
    /\ last_switch_ts = 0
    /\ current_mode = "unknown"
    /\ last_apply_ts = 0
    /\ svc = [p \in Programs |-> "RUNNING"]
    /\ script_exists = TRUE
    /\ now = 0
    /\ last_toggle = "none"
    /\ mode_fresh = FALSE
    /\ th = [t \in Threads |-> IdleThread]

\* services_start_order() is called (line 86).
CallStartOrder ==
    /\ orders.start = <<>>
    /\ orders' = [orders EXCEPT
                     !.start = StartOrderFor(orders.wm, DESKTOP_SERVICE)]
    /\ UNCHANGED <<DESKTOP_SERVICE, shared, svc, script_exists, now,
                   last_toggle, mode_fresh, th>>

\* services_stop_order() is called (line 92).
CallStopOrder ==
    /\ orders.stop = <<>>
    /\ orders' = [orders EXCEPT
                     !.stop = StopOrderFor(orders.wm, DESKTOP_SERVICE)]
    /\ UNCHANGED <<DESKTOP_SERVICE, shared, svc, script_exists, now,
                   last_toggle, mode_fresh, th>>

OrderNext == CallStartOrder \/ CallStopOrder

OrderSpec == OrderInit /\ [][OrderNext]_vars

---------------------------------------------------------------------------

\* The step on which thread t leaves wait_stack_ready's loop.
WaitStackEnds(t) == WaitStackReady(t) /\ th'[t].pc # "wait_sleep"

\* The step on which thread t leaves wait_x_ready's loop.
WaitXEnds(t) == WaitXReady(t) /\ th'[t].pc # "xdpyinfo"

\* A started thread keeps running: every external call is bounded by its
\* timeout (lines 98-109) and every sleep ends, so each step of a request
\* is eventually taken; the clock advances, so a loop that keeps coming
\* back to the test of its deadline (lines 157, 204) eventually finds it
\* passed.  Requests need not arrive.  The supervisor and the file system
\* start in any state and change only through the requests' commands.
FairSpec ==
    /\ Init /\ [][RequestNext]_vars
    /\ \A t \in Threads : WF_vars(Step(t))
    /\ \A t \in Threads : SF_vars(WaitStackEnds(t))
    /\ \A t \in Threads : SF_vars(WaitXEnds(t))

---------------------------------------------------------------------------
(* Vocabulary of the properties *)

\* Thread t is inside ensure_ready's locked section (lines 260-314).
InSection(t) ==
    /\ th[t].route = "ensure"
    /\ th[t].pc \in {"snap", "stop", "start", "wait", "wait_sleep", "xready",
                     "xdpyinfo", "xsleep", "apply", "toggle", "stamp",
                     "settle", "final", "finally"}

\* Thread t's ensure_ready call has computed its return value (line 311) and
\* is about to release the lock and return it.
Returning(t) ==
    th[t].route = "ensure" /\ th[t].pc = "finally" /\ ~th[t].exc

\* Thread t's ensure_ready call has returned the busy answer (line 258).
ReturnedBusy(t) ==
    /\ th[t].route = "ensure"
    /\ th[t].pc = "send"
    /\ ~th[t].exc
    /\ th[t].payload.busy

\* Thread t takes the step that computes ensure_ready's return value from
\* the final status query (lines 291-311).
FinalStep(t) ==
    /\ th[t].route = "ensure"
    /\ th[t].pc = "final"
    /\ th'[t].pc = "finally"
    /\ ~th'[t].exc

\* The service-control commands among the commands a request has issued.
IsServiceCmd(x) == x[1] \in {"stop", "start"}

ServiceCmds(c) == SelectSeq(c, IsServiceCmd)

\* The commands of desktop_stack(action) in the order it issues them
\* (lines 173-182).
StopCmds == [i \in 1..Len(services_stop_order) |->
                <<"stop", services_stop_order[i]>>]

StartCmds == [i \in 1..Len(services_start_order) |->
                <<"start", services_start_order[i]>>]

IsPrefix(a, b) == Len(a) <= Len(b) /\ a = SubSeq(b, 1, Len(a))

Count(c, kind) == Cardinality({i \in 1..Len(c) : c[i][1] = kind})

Desired(t) == DesiredMode(th[t].want_kiosk)

\* Thread t's step is a toggle invocation that exits zero (lines 221-222).
ToggleExitsZero(t) ==
    /\ InSection(t)
    /\ th[t].pc = "toggle"
    /\ th'[t].pc = "stamp"
    /\ th'[t].toggle_rc = "zero"
    /\ th'[t].cmds = Append(th[t].cmds, <<"toggle", Desired(t)>>)

\* Thread t's ensure_ready call is at its end (line 313), returning its
\* result or unwinding an exception.
Ending(t) == th[t].route = "ensure" /\ th[t].pc = "finally"

---------------------------------------------------------------------------
(* C1 *)

\* C1: whatever the interleaving of /kiosk, /hide, /show and /desktop
\* requests, at most one ensure_ready call is between acquiring and
\* releasing the switch lock.
SingleFlight == Cardinality({t \in Threads : InSection(t)}) <= 1

\* One call is in the locked section while a second one, which arrived
\* meanwhile, has been refused the lock.
SingleFlightWitness ==
    \E a, b \in Threads : InSection(a) /\ th[b].pc = "busy"

---------------------------------------------------------------------------
(* C2 *)

\* C2: a call that finds the lock held goes straight to the busy answer
\* and returns it: 202 with ok=false, busy=true, changed=false and message
\* switch_in_progress, having issued no stop, start or toggle; none of its
\* steps changes current_mode, last_apply_ts, last_switch_ts, the lock or
\* the supervisor.
BusyCallReturns202 ==
    [][\A t \in Threads :
         /\ (th[t].pc = "acquire" /\ switch_lock /\ th'[t] # th[t]) =>
                /\ th'[t].pc = "busy"
                /\ UNCHANGED <<shared, svc, last_toggle>>
         /\ (th[t].pc = "busy" /\ th'[t] # th[t]) =>
                /\ UNCHANGED <<shared, svc, last_toggle>>
                /\ th'[t].cmds = <<>>
                /\ th'[t].pc = "send"
                /\ ~th'[t].exc
                /\ th'[t].code = 202
                /\ th'[t].payload.ok = FALSE
                /\ th'[t].payload.busy = TRUE
                /\ th'[t].payload.changed = FALSE
                /\ th'[t].payload.message = "switch_in_progress"
      ]_vars

---------------------------------------------------------------------------
(* C3 *)

\* The case of C3: a non-forced call that found the stack running at its
\* first snapshot and read current_mode equal to the desired mode.
AlreadyInMode(t) ==
    /\ th[t].route = "ensure"
    /\ th[t].pc \in {"final", "finally"}
    /\ ~th[t].force
    /\ th[t].running
    /\ th[t].mode_read = Desired(t)

\* C3: such a call issues no toggle, stop or start, and when it returns it
\* reports applied=false and changed=false, with ok=true and 200 if the
\* stack is running at the final snapshot; from the apply decision on, no
\* step of such a call changes current_mode, last_apply_ts or
\* last_switch_ts or issues a command, whether the call goes on to return
\* or to raise.
FlickerSuppression ==
    /\ [](\A t \in Threads :
            AlreadyInMode(t) =>
                /\ th[t].cmds = <<>>
                /\ current_mode = Desired(t)
                /\ Returning(t) =>
                      /\ th[t].payload.applied = FALSE
                      /\ th[t].payload.changed = FALSE
                      /\ th[t].payload.running =>
                            th[t].payload.ok /\ th[t].code = 200)
    /\ [][\A t \in Threads :
            ( /\ \/ /\ th[t].route = "ensure"
                    /\ th[t].pc = "apply"
                    /\ ~th[t].force
                    /\ ~th[t].restarted
                    /\ current_mode = Desired(t)
                 \/ AlreadyInMode(t)
              /\ th'[t] # th[t] )
            => /\ UNCHANGED <<current_mode, last_apply_ts, last_switch_ts,
                             last_toggle>>
               /\ th'[t].cmds = <<>>]_vars

\* A /show request returns 200 without having applied anything, the mode
\* being "off" already.
FlickerSuppressionWitness ==
    \E t \in Threads :
        /\ AlreadyInMode(t)
        /\ Returning(t)
        /\ ~th[t].want_kiosk
        /\ th[t].code = 200
        /\ th[t].payload.applied = FALSE

---------------------------------------------------------------------------
(* C4 *)

\* C4: every forced call, whatever other requests are in flight, invokes
\* the toggle exactly once when the executable exists: none is answered
\* busy, and one that ends with the executable present, not having seen it
\* missing, has invoked the toggle once, with the requested mode.
ForcedAlwaysToggles ==
    \A t \in Threads :
        (th[t].route = "ensure" /\ th[t].force) =>
            /\ th[t].pc # "busy"
            /\ (Ending(t) /\ script_exists /\ th[t].exists_seen # "no") =>
                   /\ Count(th[t].cmds, "toggle") = 1
                   /\ <<"toggle", Desired(t)>> \in
                          {th[t].cmds[i] : i \in 1..Len(th[t].cmds)}

---------------------------------------------------------------------------
(* C5 *)

\* C5: a call in which the toggle was invoked and exited zero ends with
\* current_mode equal to the requested mode and returns ok=true with 200.
SuccessfulApplyReturns200 ==
    [][\A t \in Threads :
         /\ ToggleExitsZero(t) => current_mode' = Desired(t)
         /\ ( /\ InSection(t)
              /\ th[t].toggle_rc = "zero"
              /\ ~Ending(t)
              /\ th'[t].pc = "finally" ) =>
                /\ current_mode' = Desired(t)
                /\ ~th'[t].exc
                /\ th'[t].payload.ok
                /\ th'[t].code = 200]_vars

---------------------------------------------------------------------------
(* C6 *)

\* C6 as stated, for the calls that held the lock: with the toggle
\* executable missing when the call returns (and never seen present by the
\* call), the call returns ok=false, 202, mode_ok=false and leaves
\* current_mode as it was.
MissingScriptAlwaysFails ==
    [][\A t \in Threads :
         (FinalStep(t) /\ ~script_exists /\ th[t].exists_seen # "yes") =>
             /\ th'[t].payload.ok = FALSE
             /\ th'[t].code = 202
             /\ th'[t].payload.mode_ok = FALSE
             /\ current_mode = th[t].mode_read]_vars

\* C6, amended: a call that reaches set_kiosk_mode and finds the path
\* missing spawns no process, leaves current_mode as it read it, and
\* returns ok=false, 202, mode_ok=false, applied=true.
MissingScriptSeenFails ==
    \A t \in Threads :
        ( /\ th[t].route = "ensure"
          /\ th[t].pc \in {"final", "finally"}
          /\ th[t].exists_seen = "no" )
        => /\ current_mode = th[t].mode_read
           /\ Count(th[t].cmds, "toggle") = 0
           /\ Returning(t) =>
                 /\ th[t].payload.ok = FALSE
                 /\ th[t].code = 202
                 /\ th[t].payload.mode_ok = FALSE
                 /\ th[t].payload.applied

\* A forced call finds the script missing while current_mode is the
\* requested mode and the stack is running: it still returns 202.
MissingScriptWitness ==
    \E t \in Threads :
        /\ Returning(t)
        /\ th[t].exists_seen = "no"
        /\ th[t].force
        /\ current_mode = Desired(t)
        /\ th[t].payload.running
        /\ th[t].code = 202

---------------------------------------------------------------------------
(* C7 *)

\* C7: no ensure_ready call ends by raising to do_GET, whatever the
\* outcome of its external calls.
EnsureReadyNeverRaises ==
    \A t \in Threads : th[t].route = "ensure" => ~th[t].exc

---------------------------------------------------------------------------
(* C8 *)

\* C8: the lock is held exactly while some call is in the locked section
\* (so it is free once the call has ended, by return or by exception), a
\* call is answered busy only while another call is in the section, and a
\* held lock is always eventually released: at every moment the lock is
\* free or becomes free later.
LockAlwaysReleased ==
    /\ [](switch_lock <=> \E t \in Threads : InSection(t))
    /\ [][\A t \in Threads :
            (th[t].pc = "acquire" /\ th'[t].pc = "busy") =>
                \E u \in Threads \ {t} : InSection(u)]_vars
    /\ []<>~switch_lock

\* A call has left the locked section by an exception (no other request
\* has arrived, so it held the lock) and the lock is free.
LockReleasedWitness ==
    \E a \in Threads :
        /\ th[a].route = "ensure" /\ th[a].exc /\ th[a].pc = "send"
        /\ ~switch_lock
        /\ \A b \in Threads \ {a} : th[b].pc = "new"

---------------------------------------------------------------------------
(* C9 *)

\* C9: a non-busy call returns ok = (stack running at the final snapshot)
\* and (mode apply skipped or toggle exited zero) and (current_mode is the
\* desired mode); 200 with "ready" exactly when ok, else 202 with
\* "starting" when the stack is not running at the final snapshot and
\* "applying" when it is.  The stack counts as running at the final
\* snapshot when the snapshot shows every required service RUNNING, and
\* only then or when it shows none of them.
OkPredicate ==
    \A t \in Threads :
        Returning(t) =>
            LET p == th[t].payload
                all_running == \A s \in Managed : p.services[s] = "RUNNING"
                all_unknown == \A s \in Managed : p.services[s] = "UNKNOWN"
                mode_done == ~th[t].apply_needed \/ th[t].toggle_rc = "zero"
            IN /\ all_running => p.running
               /\ p.running => (all_running \/ all_unknown)
               /\ p.mode_ok = mode_done
               /\ p.ok = (p.running /\ mode_done
                            /\ current_mode = Desired(t))
               /\ p.busy = FALSE
               /\ th[t].code = (IF p.ok THEN 200 ELSE 202)
               /\ p.message = (IF p.ok THEN "ready"
                               ELSE IF ~p.running THEN "starting"
                               ELSE "applying")

\* A forced call whose toggle exits non-zero returns 202 "applying" with
\* the stack running and current_mode already the desired mode.
OkPredicateWitness ==
    \E t \in Threads :
        /\ Returning(t)
        /\ th[t].toggle_rc = "nonzero"
        /\ current_mode = Desired(t)
        /\ th[t].payload.running
        /\ th[t].code = 202
        /\ th[t].payload.message = "applying"

---------------------------------------------------------------------------
(* C10 *)

\* C10: when 200 is returned, every required service is RUNNING in the
\* supervisor at the final status query and the most recent toggle
\* invocation that exited zero was made with the requested mode.
Only200WhenRunning ==
    [][\A t \in Threads :
         (FinalStep(t) /\ th'[t].code = 200) =>
             /\ \A s \in Managed : svc[s] = "RUNNING"
             /\ last_toggle = Desired(t)]_vars

---------------------------------------------------------------------------
(* C11 *)

\* C11: a call that holds the lock and is forced, or found the stack not
\* running at its first snapshot, has issued a stop for every service in
\* stop order and then a start for every service in start order when it
\* ends, has recorded last_switch_ts, and returns a result that reports
\* changed=true.
FullStopThenStart ==
    \A t \in Threads :
        (Ending(t) /\ (th[t].force \/ (~th[t].exc /\ ~th[t].running))) =>
            /\ ServiceCmds(th[t].cmds) = StopCmds \o StartCmds
            /\ last_switch_ts > 0
            /\ ~th[t].exc
            /\ th[t].payload.changed

---------------------------------------------------------------------------
(* C12 *)

\* The mode memory and the switch timestamp (lines 68, 71, 72).
ModeState == <<current_mode, last_apply_ts, last_switch_ts>>

\* The step is one of thread t alone.
StepOf(t) ==
    /\ th'[t] # th[t]
    /\ \A u \in Threads \ {t} : th'[u] = th[u]

\* C12: current_mode, last_apply_ts and last_switch_ts change only on a
\* step of the call that holds the switch lock; current_mode changes only
\* on the step of a toggle invocation that exits zero, to the mode passed
\* to it, never back to unknown, and last_apply_ts only on the lock
\* holder's next statement, with current_mode the mode just applied; the
\* steps of status requests, /restart, /reset, unknown paths, busy calls
\* and applies that fail or raise change none of the three.
ModeStateOwnedByLockHolder ==
    [][/\ ModeState' # ModeState =>
            \E t \in Threads : switch_lock /\ InSection(t) /\ StepOf(t)
       /\ current_mode' # current_mode =>
            \E t \in Threads :
                /\ StepOf(t)
                /\ ToggleExitsZero(t)
                /\ current_mode' = Desired(t)
                /\ last_toggle' = Desired(t)
       /\ last_apply_ts' # last_apply_ts =>
            \E t \in Threads :
                /\ StepOf(t)
                /\ InSection(t)
                /\ th[t].pc = "stamp"
                /\ th[t].toggle_rc = "zero"
                /\ current_mode = Desired(t)
       /\ current_mode' = "unknown" => current_mode = "unknown"
       /\ \A t \in Threads :
            ( /\ th'[t] # th[t]
              /\ \/ th[t].route \in {"status", "restart", "notfound",
                                     "invalid"}
                 \/ th'[t].route \in {"status", "restart", "notfound",
                                      "invalid"}
                 \/ th[t].pc \in {"acquire", "busy", "send"}
                 \/ th[t].pc = "toggle" /\ th'[t].toggle_rc # "zero" )
            => UNCHANGED ModeState
      ]_vars

\* The lock holder has just changed current_mode by a toggle that exited
\* zero, while a /restart request is stopping or starting services.
ModeStateWitness ==
    \E t, u \in Threads :
        /\ InSection(t)
        /\ th[t].pc = "final"
        /\ th[t].toggle_rc = "zero"
        /\ th[t].mode_read # Desired(t)
        /\ current_mode = Desired(t)
        /\ last_apply_ts > 0
        /\ th[u].route = "restart"
        /\ th[u].pc \in {"stop", "start", "wait", "wait_sleep"}

---------------------------------------------------------------------------
(* C13 *)

\* Thread t's step is the return of its desktop_stack call (lines 176, 183):
\* the service stop/start sequence of the request is complete.
StackSequenceEnds(t) ==
    /\ th[t].pc = "wait"
    /\ th'[t].pc \in {"xready", "apply", "restart_payload"}

\* C13: last_switch_ts identifies the most recent stack start/restart
\* action: whenever a request completes a service stop/start sequence,
\* through ensure_ready or through /restart or /reset, last_switch_ts is
\* set to the time of that completion, which is later than the time it
\* held before.
LastSwitchIsMostRecent ==
    [][\A t \in Threads :
         StackSequenceEnds(t) =>
             /\ last_switch_ts' = now'
             /\ last_switch_ts' > last_switch_ts]_vars

---------------------------------------------------------------------------
(* C14 *)

\* C14: a /restart or /reset request issues the stops in stop order and
\* then the starts in start order and nothing else, whatever the state of
\* the stack and whatever current_mode is, never ends by an exception, and
\* answers 200 with ok=true and message=restarted after the whole sequence.
RestartUnconditional ==
    \A t \in Threads :
        th[t].route = "restart" =>
            /\ ~th[t].exc
            /\ IsPrefix(th[t].cmds, StopCmds \o StartCmds)
            /\ th[t].pc \in {"wait", "wait_sleep", "restart_payload",
                             "send"} =>
                   th[t].cmds = StopCmds \o StartCmds
            /\ th[t].pc = "send" =>
                   /\ th[t].code = 200
                   /\ th[t].payload.ok
                   /\ th[t].payload.message = "restarted"

---------------------------------------------------------------------------
(* C15 *)

\* No request other than thread t's has arrived.
Alone(t) == \A u \in Threads \ {t} : th[u].pc = "new"

\* Thread t serves a non-forced /kiosk request, alone, that found the
\* stack down (it has issued service commands) and whose stack-wait has
\* succeeded (the display probe has run).
StackDownProbed(t) ==
    /\ th[t].route = "ensure"
    /\ ~th[t].force
    /\ th[t].want_kiosk
    /\ Alone(t)
    /\ Count(th[t].cmds, "start") > 0
    /\ Count(th[t].cmds, "xprobe") > 0

\* C15: in the stack-down scenario the call issues the starts in start
\* order, then the display probe, then the toggle with "on", in that
\* order; whatever the probe's outcome the call goes on to the toggle; and
\* with the toggle exiting zero and the stack running it returns 200 with
\* ok=true, changed=true, requested_mode=on.
StackDownScenario ==
    \A t \in Threads :
        StackDownProbed(t) =>
            /\ ~th[t].exc
            /\ Len(th[t].cmds) <= Len(StartCmds) + 2
            /\ SubSeq(th[t].cmds, 1, Len(StartCmds)) = StartCmds
            /\ th[t].cmds[Len(StartCmds) + 1][1] = "xprobe"
            /\ Len(th[t].cmds) = Len(StartCmds) + 2 =>
                   th[t].cmds[Len(StartCmds) + 2] = <<"toggle", "on">>
            /\ th[t].pc \in {"stamp", "settle", "final", "finally"} =>
                   \/ Count(th[t].cmds, "toggle") = 1
                   \/ th[t].exists_seen = "no"
            /\ ( /\ Returning(t)
                 /\ th[t].toggle_rc = "zero"
                 /\ th[t].payload.running ) =>
                   /\ th[t].code = 200
                   /\ th[t].payload.ok
                   /\ th[t].payload.changed
                   /\ th[t].payload.requested_mode = "on"

---------------------------------------------------------------------------
(* C16 *)

\* The companion is empty, a disabled sentinel in any letter case
\* (line 79), or named like the window manager.
CompanionDisabled ==
    \/ DESKTOP_SERVICE = <<>>
    \/ Lower(DESKTOP_SERVICE) \in Sentinels
    \/ DESKTOP_SERVICE = orders.wm

Reverse(q) == [i \in 1..Len(q) |-> q[Len(q) + 1 - i]]

\* C16: for every configuration, once both orders have been computed the
\* stop order is the reverse of the start order; with the companion
\* disabled the start order is [wm] and equals the stop order, otherwise it
\* is [wm, companion].
StopOrderIsReverse ==
    (orders.start # <<>> /\ orders.stop # <<>>) =>
        /\ orders.stop = Reverse(orders.start)
        /\ IF CompanionDisabled
           THEN /\ orders.start = <<orders.wm>>
                /\ orders.stop = orders.start
           ELSE orders.start = <<orders.wm, DESKTOP_SERVICE>>

\* Both orders have been computed for a companion given as a sentinel in
\* mixed letter case: each is the window manager alone.
StopOrderWitness ==
    /\ Lower(DESKTOP_SERVICE) \in Sentinels
    /\ DESKTOP_SERVICE \notin Sentinels
    /\ DESKTOP_SERVICE # orders.wm
    /\ orders.start = <<orders.wm>>
    /\ orders.stop = <<orders.wm>>

---------------------------------------------------------------------------
(* C17 *)

\* C17: a non-forced call never issues a stop; its first snapshot counts as
\* running exactly when it is empty (the status query failed or listed
\* nothing) or shows every required service RUNNING; on an empty snapshot
\* the call goes to the apply step having issued no start; it goes to the
\* starts only on a non-empty snapshot that counts as not running; and once
\* past them it has issued starts exactly when the snapshot counted as not
\* running.
FailOpen ==
    /\ [](\A t \in Threads :
            (th[t].route = "ensure" /\ ~th[t].force) =>
                /\ Count(th[t].cmds, "stop") = 0
                /\ (th[t].pc = "apply" /\ th[t].st_empty) =>
                       th[t].running /\ ServiceCmds(th[t].cmds) = <<>>
                /\ th[t].pc \in {"start", "wait", "wait_sleep"} =>
                       ~th[t].st_empty /\ ~th[t].running
                /\ (th[t].pc \in {"wait", "wait_sleep", "xready", "xdpyinfo",
                                  "xsleep", "apply", "toggle", "stamp",
                                  "settle", "final"}
                        \/ Returning(t)) =>
                       (Count(th[t].cmds, "start") > 0) = ~th[t].running)
    /\ [][\A t \in Threads :
            ( /\ th[t].route = "ensure"
              /\ th[t].pc = "snap"
              /\ th'[t].pc \in {"stop", "start", "apply"} ) =>
                th'[t].running =
                    ( \/ th'[t].st_empty
                      \/ \A s \in Managed : svc[s] = "RUNNING" )]_vars

\* A non-forced call is at the apply step on an empty first snapshot,
\* having issued nothing, while the window manager is stopped.
FailOpenWitness ==
    \E t \in Threads :
        /\ th[t].route = "ensure"
        /\ ~th[t].force
        /\ th[t].pc = "apply"
        /\ th[t].st_empty
        /\ th[t].cmds = <<>>
        /\ svc[WM_SERVICE] = "STOPPED"

---------------------------------------------------------------------------
(* C18 *)

\* Thread t's request is in the middle of its service stop/start sequence:
\* it has issued a command of desktop_stack and has another one to issue.
MidSequence(t) ==
    /\ th[t].pc \in {"stop", "start"}
    /\ ServiceCmds(th[t].cmds) # <<>>

\* C18: no two requests, whatever their paths, are in the middle of their
\* service stop/start sequences at the same time.
ServiceControlSerialized ==
    Cardinality({t \in Threads : MidSequence(t)}) <= 1

---------------------------------------------------------------------------
(* C19 *)

\* C19: whenever an ensure_ready call returns 200 for mode m, a toggle
\* with m has exited zero since the most recent service stop or start
\* command of this program, whichever request issued it.
ModeMemoryFresh ==
    [][\A t \in Threads :
         (FinalStep(t) /\ th'[t].code = 200) =>
             /\ mode_fresh
             /\ last_toggle = Desired(t)]_vars

---------------------------------------------------------------------------
(* C20 *)

\* Thread t serves a further non-forced /kiosk request of a client that
\* invokes them one after the other, after a call has returned 200 with
\* current_mode = on (the initial state of WarmSpec).
RepeatedCall(t) ==
    /\ th[t].route = "ensure"
    /\ ~th[t].force
    /\ th[t].want_kiosk
    /\ Alone(t)

\* C20: once a call has returned 200 with current_mode = m, every later
\* non-forced call for m ends by returning, not by an exception; with the
\* stack counting as running at its snapshots (the supervisor keeps the
\* services RUNNING) it invokes no toggle, stop or start and returns 200.
IdempotentConvergence ==
    \A t \in Threads :
        RepeatedCall(t) =>
            /\ ~th[t].exc
            /\ ( /\ th[t].pc \in {"apply", "toggle", "stamp", "settle",
                                   "final", "finally"}
                  /\ th[t].running )
                   => th[t].cmds = <<>>
            /\ (Returning(t) /\ th[t].running /\ th[t].payload.running) =>
                   /\ th[t].code = 200
                   /\ th[t].payload.ok
                   /\ th[t].payload.applied = FALSE
                   /\ current_mode = "on"

=============================================================================
